---- MODULE Spec2Model ----
(***************************************************************************)
(* A model of the text cache of grupo8_RA2: the three eviction policies    *)
(* (algorithms/FIFO.py, algorithms/MRU.py, algorithms/lfu.py) behind the   *)
(* CacheInterface of core/cache_interface.py, and the simulation harness   *)
(* run_simulation_for_algorithm in its two versions                        *)
(* (simulation/simulator.py and lfu.py).                                   *)
(***************************************************************************)
EXTENDS Integers, Sequences, FiniteSets, TLC

(***************************************************************************)
(* Bounds of the model.                                                    *)
(***************************************************************************)
\* document ids requested directly are 1..NumKeys
NumKeys == 4
\* a cache is constructed with a capacity in 1..MaxCap
MaxCap == 3
\* get_text calls made on one cache outside the harness
MaxCalls == 6
\* the harness draws its keys from 0..HNumKeys-1
HNumKeys == 2
\* the harness runs caches of capacity 1..HMaxCap
HMaxCap == 2
\* n_users * n_requests_per_user is at most MaxPatternReqs
MaxPatternReqs == 3
\* the keys of an interleaving of operations are 0..OpsNumKeys-1
OpsNumKeys == 3
\* its cache has a capacity in 1..OpsMaxCap
OpsMaxCap == 2
\* and at most OpsMaxCalls get_text calls are made since the last full reset
OpsMaxCalls == 4
\* a reset that leaves the queue is made on a queue of at most MaxStale keys
MaxStale == 2
\* a generator is called with n in 0..MaxGenCount
MaxGenCount == 3
\* at most CliMaxReads documents are read at the prompt
CliMaxReads == 3
\* the loop of Knuth's algorithm ends after at most MaxKnuth draws
MaxKnuth == 120

Keys == 1..NumKeys
HKeys == 0..(HNumKeys - 1)
Policies == {"FIFO", "MRU", "LFU"}
OpsKeys == 0..(OpsNumKeys - 1)
OpsPolicies == Policies \cup {"NoCache"}
\* Python's None where a key is expected
NoKey == -1
\* the three access patterns, in the order of the `patterns` list
NumPatterns == 3
\* Python's None where a seed is expected
NoSeed == 0
\* Python's None where a time is expected
NoTime == -1
\* explicit seeds are 1..MaxSeed
MaxSeed == 2
Seeds == 1..MaxSeed

(***************************************************************************)
(* Python containers.  A dict is a function on its key set; where the      *)
(* iteration order of the keys decides something it is kept next to it as  *)
(* a sequence.                                                             *)
(***************************************************************************)
EmptyMap == [k \in {} |-> 0]

\* d[k] = v
Put(d, k, v) == [x \in (DOMAIN d) \cup {k} |-> IF x = k THEN v ELSE d[x]]

\* d.pop(k, None)
Pop(d, k) == [x \in (DOMAIN d) \ {k} |-> d[x]]

\* the keys held by a sequence
SeqKeys(s) == {s[i] : i \in 1..Len(s)}

\* a sequence without its elements equal to k
SeqWithout(s, k) == SelectSeq(s, LAMBDA x : x # k)

\* fault: the test is > where the code has >=
IsFullOffByOne(data, cap) == Cardinality(DOMAIN data) > cap

\* len(self.cache_data) >= self.capacity
IsFull(data, cap) == Cardinality(DOMAIN data) >= cap

(***************************************************************************)
(* The disk reader: the content of texto_<id>.txt for the ids that         *)
(* generate_texts writes (1..NumKeys here), an error string otherwise.     *)
(***************************************************************************)
DiskReader(text_id) ==
    IF text_id \in Keys THEN <<"texto", text_id>> ELSE <<"ERRO", text_id>>

VARIABLES
    policy,         \* the class of the cache instance
    capacity,       \* self.capacity
    cache_data,     \* self.cache_data
    hits,           \* self.hits
    misses,         \* self.misses
    queue,          \* FIFOCache.queue (a deque)
    usage_order,    \* MRUCache.usage_order (the keys of the OrderedDict, in order)
    freq,           \* LFUCache.freq
    freq_order,     \* the keys of LFUCache.freq in the Counter's iteration order
    time_stamp,     \* LFUCache.time_stamp
    clk,            \* LFUCache._clk
    per_text_miss,  \* LFUCache.per_text_miss
    total_time,     \* total_time (MRU, LFU), in timed disk reads
    history,        \* the text_id of every get_text call made on the instance
    ins_at,         \* per key, the index in history of the call that last inserted it
    touched_at,     \* per key, the index in history of its last call
    disk_reads,     \* number of calls of self.disk_reader
    last_ret,       \* what the last get_text returned
    last_victim,    \* the key the last get_text popped (oldest_id, most_recent_id, victim)
    raised,         \* the exception the last get_text ended with, or "none"
    last_ops,       \* the last two operations made on the instance, oldest first
    stats_ret,      \* what the last get_stats returned
    steps,          \* what the last get_text did, in the order it did it
    variant,        \* which run_simulation_for_algorithm runs: "simulator" or "lfu"
    n_users,        \* its parameter n_users
    n_requests_per_user, \* its parameter n_requests_per_user
    seed_arg,       \* its parameter seed (NoSeed for None)
    seed,           \* its local seed after lines 42-44
    rng_seed,       \* the value the random source was last seeded with
    rng_stream,     \* the keys the seeded random source has yielded, in order
    rng_pos,        \* how many of them the current run has consumed
    h_pc,           \* where the harness is
    h_pat,          \* index of the pattern of the for loop
    h_user,         \* users of the pattern that are finished
    h_req,          \* requests the current user has made
    summary,        \* the dict summary
    run,            \* 1 for the first run on the instance, 2 for the second
    first_summary,  \* the summary the first run returned
    reused,         \* whether the second run is on the instance the first left
    main_pc,        \* where main() of ra2_main is
    cand,           \* index of the candidate the loop of the comparison is at
    results,        \* the dict results of the comparison: name -> <<hits, requests>>
    best_cache_name, \* main's best_cache_name
    best_cache_instance, \* the attributes of main's best_cache_instance while
                    \* the cache variables hold a candidate; <<>> otherwise
    user_input,     \* the kind of the last line read at the prompt
    choice,         \* int(user_input), when that line was a number
    gen_kind,       \* which generator of simulator.py is being iterated
    gen_n,          \* its argument n
    gen_out,        \* how many keys it has yielded
    gen_key,        \* the key it yielded last
    gen_branch,     \* the branch of the weighted generator that drew it
    gen_done        \* the generator is exhausted

cacheVars == <<policy, capacity, cache_data, hits, misses, queue, usage_order,
               freq, freq_order, time_stamp, clk, per_text_miss, total_time>>
obsVars == <<history, ins_at, touched_at, disk_reads, last_ret, last_victim, raised,
             last_ops, stats_ret, steps>>
harnessVars == <<variant, n_users, n_requests_per_user, seed_arg, seed, rng_seed,
                 rng_stream, rng_pos, h_pc, h_pat, h_user, h_req, summary, run,
                 first_summary, reused>>
mainVars == <<main_pc, cand, results, best_cache_name, best_cache_instance,
              user_input, choice>>
genVars == <<gen_kind, gen_n, gen_out, gen_key, gen_branch, gen_done>>
vars == <<cacheVars, obsVars, harnessVars, mainVars, genVars>>

\* the operation op was just made on the instance
Did(op) == last_ops' = <<last_ops[2], op>>

\* nothing observed yet: the instance is new, or was just emptied
ObsInit ==
    /\ history = <<>>
    /\ ins_at = EmptyMap
    /\ touched_at = EmptyMap
    /\ disk_reads = 0
    /\ last_ret = <<>>
    /\ last_victim = NoKey
    /\ raised = "none"
    /\ last_ops = <<"none", "none">>
    /\ stats_ret = <<>>
    /\ steps = <<>>

ObsReset ==
    /\ history' = <<>>
    /\ ins_at' = EmptyMap
    /\ touched_at' = EmptyMap
    /\ disk_reads' = 0
    /\ last_ret' = <<>>
    /\ last_victim' = NoKey
    /\ raised' = "none"
    /\ steps' = <<>>

\* what every get_text does to the record of calls
Called(text_id) ==
    /\ history' = Append(history, text_id)
    /\ touched_at' = Put(touched_at, text_id, Len(history) + 1)
    /\ Did("get_text")
    /\ UNCHANGED stats_ret

\* CacheInterface.__init__ and the constructors of the three classes
Construct(p, cap) ==
    /\ policy' = p
    /\ capacity' = cap
    /\ cache_data' = EmptyMap
    /\ hits' = 0
    /\ misses' = 0
    /\ queue' = <<>>
    /\ usage_order' = <<>>
    /\ freq' = EmptyMap
    /\ freq_order' = <<>>
    /\ time_stamp' = EmptyMap
    /\ clk' = 0
    /\ per_text_miss' = EmptyMap
    /\ total_time' = 0
    /\ ObsReset
    /\ last_ops' = <<"none", "none">>
    /\ stats_ret' = <<>>

\* the same, as the state a behaviour starts in
Constructed(p, cap) ==
    /\ policy = p
    /\ capacity = cap
    /\ cache_data = EmptyMap
    /\ hits = 0
    /\ misses = 0
    /\ queue = <<>>
    /\ usage_order = <<>>
    /\ freq = EmptyMap
    /\ freq_order = <<>>
    /\ time_stamp = EmptyMap
    /\ clk = 0
    /\ per_text_miss = EmptyMap
    /\ total_time = 0
    /\ ObsInit

(***************************************************************************)
(* FIFOCache.get_text                                                      *)
(***************************************************************************)
\* fault: a hit returns a cached text, not the one of text_id
LookupFirst(data, text_id) == data[CHOOSE k \in DOMAIN data : \A j \in DOMAIN data : k <= j]

\* self.cache_data[text_id], the content a hit returns
Lookup(data, text_id) == data[text_id]

\* fault: pop() where the code has popleft()
FIFOEvictLast(data, q) ==
    [data |-> Pop(data, q[Len(q)]), queue |-> SubSeq(q, 1, Len(q) - 1),
     victim |-> q[Len(q)]]

\* self.queue.popleft() followed by self.cache_data.pop(oldest_id, None)
FIFOEvict(data, q) == [data |-> Pop(data, Head(q)), queue |-> Tail(q), victim |-> Head(q)]

\* lines 43-46
\* fault: a hit moves the key to the back of the queue
FIFOHitMovesToBack(text_id) ==
    /\ hits' = hits + 1
    /\ queue' = Append(SeqWithout(queue, text_id), text_id)
    /\ last_ret' = Lookup(cache_data, text_id)
    /\ last_victim' = NoKey
    /\ raised' = "none"
    /\ UNCHANGED <<cache_data, misses, ins_at, disk_reads>>

\* fault: a hit appends the key to the queue again
FIFOHitRequeues(text_id) ==
    /\ hits' = hits + 1
    /\ queue' = Append(queue, text_id)
    /\ last_ret' = Lookup(cache_data, text_id)
    /\ last_victim' = NoKey
    /\ raised' = "none"
    /\ UNCHANGED <<cache_data, misses, ins_at, disk_reads>>

\* lines 43-46
FIFOHit(text_id) ==
    /\ hits' = hits + 1
    /\ last_ret' = Lookup(cache_data, text_id)
    /\ last_victim' = NoKey
    /\ raised' = "none"
    /\ UNCHANGED <<cache_data, misses, queue, ins_at, disk_reads>>

\* lines 47-61
FIFOMiss(text_id) ==
    /\ misses' = misses + 1
    /\ disk_reads' = disk_reads + 1
    /\ UNCHANGED hits
    /\ IF IsFull(cache_data, capacity) /\ queue = <<>>
       THEN \* popleft on an empty deque
            /\ raised' = "IndexError"
            /\ last_ret' = <<>>
            /\ last_victim' = NoKey
            /\ UNCHANGED <<cache_data, queue, ins_at>>
       ELSE LET ev == IF IsFull(cache_data, capacity)
                      THEN FIFOEvict(cache_data, queue)
                      ELSE [data |-> cache_data, queue |-> queue, victim |-> NoKey]
            IN  /\ cache_data' = Put(ev.data, text_id, DiskReader(text_id))
                /\ queue' = Append(ev.queue, text_id)
                /\ last_victim' = ev.victim
                /\ last_ret' = DiskReader(text_id)
                /\ ins_at' = Put(ins_at, text_id, Len(history) + 1)
                /\ raised' = "none"

\* fault: the content of a document that is not on the disk is returned
\* and not stored
FIFOGetTextSkipsErrors(text_id) ==
    /\ Called(text_id)
    /\ UNCHANGED <<policy, capacity, usage_order, freq, freq_order, time_stamp,
                   clk, per_text_miss, total_time>>
    /\ steps' = IF text_id \in DOMAIN cache_data THEN <<"lookup">> ELSE <<"read">>
    /\ IF text_id \in DOMAIN cache_data THEN FIFOHit(text_id)
       ELSE IF DiskReader(text_id)[1] = "ERRO"
       THEN /\ misses' = misses + 1
            /\ disk_reads' = disk_reads + 1
            /\ last_ret' = DiskReader(text_id)
            /\ last_victim' = NoKey
            /\ raised' = "none"
            /\ UNCHANGED <<cache_data, hits, queue, ins_at>>
       ELSE FIFOMiss(text_id)

\* lines 47-61 in their order: the disk is read (line 51), the oldest key is
\* popped when the cache is full (lines 54-56), the new key is stored
FIFOMissSteps ==
    IF ~IsFull(cache_data, capacity) THEN <<"read", "insert">>
    ELSE IF queue = <<>> THEN <<"read", "raise">>
    ELSE <<"read", "evict", "insert">>

FIFOCache_get_text(text_id) ==
    /\ Called(text_id)
    /\ steps' = IF text_id \in DOMAIN cache_data THEN <<"lookup">> ELSE FIFOMissSteps
    /\ UNCHANGED <<policy, capacity, usage_order, freq, freq_order, time_stamp,
                   clk, per_text_miss, total_time>>
    /\ IF text_id \in DOMAIN cache_data THEN FIFOHit(text_id) ELSE FIFOMiss(text_id)

(***************************************************************************)
(* MRUCache.get_text                                                       *)
(***************************************************************************)
\* OrderedDict.move_to_end(k)
MoveToEnd(order, k) == Append(SeqWithout(order, k), k)

\* OrderedDict[k] = True: a new key goes last, a present key keeps its place
OrderedSet(order, k) == IF k \in SeqKeys(order) THEN order ELSE Append(order, k)

\* fault: popitem(last=False) where the code has popitem(last=True)
MRUEvictOldest(data, order) ==
    [data |-> Pop(data, Head(order)), order |-> Tail(order), victim |-> Head(order)]

\* fault: the popped key is left in cache_data
MRUEvictKeepsData(data, order) ==
    [data |-> data, order |-> SubSeq(order, 1, Len(order) - 1),
     victim |-> order[Len(order)]]

\* usage_order.popitem(last=True), then del cache_data[most_recent_id] if present
MRUEvict(data, order) ==
    [data |-> Pop(data, order[Len(order)]),
     order |-> SubSeq(order, 1, Len(order) - 1),
     victim |-> order[Len(order)]]

\* lines 26-32
MRUHit(text_id) ==
    /\ hits' = hits + 1
    /\ usage_order' = MoveToEnd(usage_order, text_id)
    /\ last_ret' = Lookup(cache_data, text_id)
    /\ last_victim' = NoKey
    /\ raised' = "none"
    /\ UNCHANGED <<cache_data, misses, total_time, ins_at, disk_reads>>

\* lines 35-55
MRUMiss(text_id) ==
    /\ misses' = misses + 1
    /\ UNCHANGED hits
    /\ IF IsFull(cache_data, capacity) /\ usage_order = <<>>
       THEN \* popitem on an empty OrderedDict, before the disk read
            /\ raised' = "KeyError"
            /\ last_ret' = <<>>
            /\ last_victim' = NoKey
            /\ UNCHANGED <<cache_data, usage_order, total_time, ins_at, disk_reads>>
       ELSE LET ev == IF IsFull(cache_data, capacity)
                      THEN MRUEvict(cache_data, usage_order)
                      ELSE [data |-> cache_data, order |-> usage_order,
                            victim |-> NoKey]
            IN  /\ disk_reads' = disk_reads + 1
                /\ total_time' = total_time + 1
                /\ cache_data' = Put(ev.data, text_id, DiskReader(text_id))
                /\ usage_order' = OrderedSet(ev.order, text_id)
                /\ last_victim' = ev.victim
                /\ last_ret' = DiskReader(text_id)
                /\ ins_at' = Put(ins_at, text_id, Len(history) + 1)
                /\ raised' = "none"

\* lines 35-55 in their order: the most recent key is popped when the cache
\* is full (lines 40-45), then the disk is read (line 49), then the new key
\* is stored
MRUMissSteps ==
    IF ~IsFull(cache_data, capacity) THEN <<"read", "insert">>
    ELSE IF usage_order = <<>> THEN <<"raise">>
    ELSE <<"evict", "read", "insert">>

MRUCache_get_text(text_id) ==
    /\ Called(text_id)
    /\ steps' = IF text_id \in DOMAIN cache_data THEN <<"lookup">> ELSE MRUMissSteps
    /\ UNCHANGED <<policy, capacity, queue, freq, freq_order, time_stamp, clk,
                   per_text_miss>>
    /\ IF text_id \in DOMAIN cache_data THEN MRUHit(text_id) ELSE MRUMiss(text_id)

(***************************************************************************)
(* LFUCache.get_text                                                       *)
(***************************************************************************)
\* min(self.freq.values())
MinFreq(f) == CHOOSE m \in {f[k] : k \in DOMAIN f} : \A k \in DOMAIN f : m <= f[k]

\* [tid for tid, f in self.freq.items() if f == min_freq], in the Counter's order
Candidates(f, order) == SelectSeq(order, LAMBDA k : f[k] = MinFreq(f))

\* self.time_stamp.get(t, 0)
StampOf(ts, k) == IF k \in DOMAIN ts THEN ts[k] ELSE 0

\* fault: max where the code has min, the most recent candidate goes
LFUVictimMostRecent(f, order, ts) ==
    LET c == Candidates(f, order)
        i == CHOOSE i \in 1..Len(c) :
                \A j \in 1..Len(c) : StampOf(ts, c[i]) >= StampOf(ts, c[j])
    IN  c[i]

\* min(candidates, key=...): the first candidate of the smallest timestamp
LFUVictim(f, order, ts) ==
    LET c == Candidates(f, order)
        i == CHOOSE i \in 1..Len(c) :
                /\ \A j \in 1..Len(c) : StampOf(ts, c[i]) <= StampOf(ts, c[j])
                /\ \A j \in 1..(i - 1) : StampOf(ts, c[j]) > StampOf(ts, c[i])
    IN  c[i]

\* fault: the victim is left in time_stamp
LFUEvictPartial(data, f, order, ts) ==
    LET v == LFUVictim(f, order, ts)
    IN  [data |-> Pop(data, v), freq |-> Pop(f, v), order |-> SeqWithout(order, v),
         ts |-> ts, victim |-> v]

\* for d in (self.cache_data, self.freq, self.time_stamp): d.pop(victim, None)
LFUEvict(data, f, order, ts) ==
    LET v == LFUVictim(f, order, ts)
    IN  [data |-> Pop(data, v), freq |-> Pop(f, v), order |-> SeqWithout(order, v),
         ts |-> Pop(ts, v), victim |-> v]

\* Counter[k] += 1: a missing key counts as 0 and is added last
\* fault: the count is set to 1, not incremented
CounterIncStuck(c, k) == Put(c, k, 1)

CounterInc(c, k) == Put(c, k, (IF k \in DOMAIN c THEN c[k] ELSE 0) + 1)

\* fault: a hit leaves the timestamp of the key as it was
LFUHitKeepsStamp(text_id) ==
    /\ hits' = hits + 1
    /\ freq' = CounterInc(freq, text_id)
    /\ freq_order' = OrderedSet(freq_order, text_id)
    /\ last_ret' = Lookup(cache_data, text_id)
    /\ last_victim' = NoKey
    /\ raised' = "none"
    /\ UNCHANGED <<cache_data, misses, per_text_miss, total_time, ins_at,
                   disk_reads, time_stamp>>

\* fault: a hit reads the disk again
LFUHitReads(text_id) ==
    /\ hits' = hits + 1
    /\ freq' = CounterInc(freq, text_id)
    /\ freq_order' = OrderedSet(freq_order, text_id)
    /\ time_stamp' = Put(time_stamp, text_id, clk + 1)
    /\ disk_reads' = disk_reads + 1
    /\ last_ret' = DiskReader(text_id)
    /\ last_victim' = NoKey
    /\ raised' = "none"
    /\ UNCHANGED <<cache_data, misses, per_text_miss, total_time, ins_at>>

\* lines 55-60
LFUHit(text_id) ==
    /\ hits' = hits + 1
    /\ freq' = CounterInc(freq, text_id)
    /\ freq_order' = OrderedSet(freq_order, text_id)
    /\ time_stamp' = Put(time_stamp, text_id, clk + 1)
    /\ last_ret' = Lookup(cache_data, text_id)
    /\ last_victim' = NoKey
    /\ raised' = "none"
    /\ UNCHANGED <<cache_data, misses, per_text_miss, total_time, ins_at, disk_reads>>

\* lines 62-100
LFUMiss(text_id) ==
    /\ misses' = misses + 1
    /\ per_text_miss' = CounterInc(per_text_miss, text_id)
    /\ disk_reads' = disk_reads + 1
    /\ total_time' = total_time + 1
    /\ UNCHANGED hits
    /\ IF IsFull(cache_data, capacity) /\ DOMAIN freq = {}
       THEN \* min() of an empty sequence
            /\ raised' = "ValueError"
            /\ last_ret' = <<>>
            /\ last_victim' = NoKey
            /\ UNCHANGED <<cache_data, freq, freq_order, time_stamp, ins_at>>
       ELSE LET ev == IF IsFull(cache_data, capacity)
                      THEN LFUEvict(cache_data, freq, freq_order, time_stamp)
                      ELSE [data |-> cache_data, freq |-> freq, order |-> freq_order,
                            ts |-> time_stamp, victim |-> NoKey]
            IN  /\ cache_data' = Put(ev.data, text_id, DiskReader(text_id))
                /\ freq' = Put(ev.freq, text_id, 1)
                /\ freq_order' = OrderedSet(ev.order, text_id)
                /\ time_stamp' = Put(ev.ts, text_id, clk + 1)
                /\ last_victim' = ev.victim
                /\ last_ret' = DiskReader(text_id)
                /\ ins_at' = Put(ins_at, text_id, Len(history) + 1)
                /\ raised' = "none"

\* lines 62-98 in their order: the disk is read (line 69), the victim is
\* removed when the cache is full (lines 78-92), the new key is stored
LFUMissSteps ==
    IF ~IsFull(cache_data, capacity) THEN <<"read", "insert">>
    ELSE IF DOMAIN freq = {} THEN <<"read", "raise">>
    ELSE <<"read", "evict", "insert">>

LFUCache_get_text(text_id) ==
    /\ Called(text_id)
    /\ steps' = IF text_id \in DOMAIN cache_data THEN <<"lookup">> ELSE LFUMissSteps
    /\ UNCHANGED <<policy, capacity, queue, usage_order>>
    /\ clk' = clk + 1
    /\ IF text_id \in DOMAIN cache_data THEN LFUHit(text_id) ELSE LFUMiss(text_id)

(***************************************************************************)
(* ra2_main.py: NoCache                                                    *)
(***************************************************************************)
\* lines 25-29: every call is a miss that reads the disk; nothing is stored
NoCache_get_text(text_id) ==
    /\ Called(text_id)
    /\ steps' = <<"read">>
    /\ misses' = misses + 1
    /\ disk_reads' = disk_reads + 1
    /\ last_ret' = DiskReader(text_id)
    /\ last_victim' = NoKey
    /\ raised' = "none"
    /\ UNCHANGED <<policy, capacity, cache_data, hits, queue, usage_order, freq,
                   freq_order, time_stamp, clk, per_text_miss, total_time, ins_at>>

(***************************************************************************)
(* get_text when the call of self.disk_reader raises                       *)
(***************************************************************************)
\* FIFO.py lines 47-51: the miss is counted and the reader raises
FIFOReaderRaises(text_id) ==
    /\ misses' = misses + 1
    /\ disk_reads' = disk_reads + 1
    /\ last_victim' = NoKey
    /\ raised' = "ReaderError"
    /\ steps' = <<"read", "raise">>
    /\ UNCHANGED <<policy, capacity, cache_data, hits, queue, usage_order, freq,
                   freq_order, time_stamp, clk, per_text_miss, total_time>>

\* MRU.py lines 35-49: the miss is counted, the most recent key is popped
\* when the cache is full, and then the reader raises
MRUReaderRaises(text_id) ==
    /\ misses' = misses + 1
    /\ UNCHANGED <<policy, capacity, hits, queue, freq, freq_order, time_stamp, clk,
                   per_text_miss, total_time>>
    /\ IF IsFull(cache_data, capacity) /\ usage_order = <<>>
       THEN /\ raised' = "KeyError"
            /\ last_victim' = NoKey
            /\ steps' = <<"raise">>
            /\ UNCHANGED <<cache_data, usage_order, disk_reads>>
       ELSE LET ev == IF IsFull(cache_data, capacity)
                      THEN MRUEvict(cache_data, usage_order)
                      ELSE [data |-> cache_data, order |-> usage_order,
                            victim |-> NoKey]
            IN  /\ cache_data' = ev.data
                /\ usage_order' = ev.order
                /\ last_victim' = ev.victim
                /\ disk_reads' = disk_reads + 1
                /\ raised' = "ReaderError"
                /\ steps' = IF IsFull(cache_data, capacity)
                            THEN <<"evict", "read", "raise">>
                            ELSE <<"read", "raise">>

\* lfu.py lines 51, 64-69: the clock ticks, the miss is counted for the
\* cache and for the key, and the reader raises
LFUReaderRaises(text_id) ==
    /\ clk' = clk + 1
    /\ misses' = misses + 1
    /\ per_text_miss' = CounterInc(per_text_miss, text_id)
    /\ disk_reads' = disk_reads + 1
    /\ last_victim' = NoKey
    /\ raised' = "ReaderError"
    /\ steps' = <<"read", "raise">>
    /\ UNCHANGED <<policy, capacity, cache_data, hits, queue, usage_order, freq,
                   freq_order, time_stamp, total_time>>

\* a get_text of a key that is not resident, whose disk read raises
get_text_ReaderRaises(text_id) ==
    /\ text_id \notin DOMAIN cache_data
    /\ history' = Append(history, text_id)
    /\ Did("get_text")
    /\ last_ret' = <<>>
    /\ UNCHANGED <<stats_ret, ins_at, touched_at>>
    /\ IF policy = "FIFO" THEN FIFOReaderRaises(text_id)
       ELSE IF policy = "MRU" THEN MRUReaderRaises(text_id)
       ELSE LFUReaderRaises(text_id)

\* algorithm.get_text(text_id), dispatched on the class of the instance
get_text(text_id) ==
    IF policy = "NoCache" THEN NoCache_get_text(text_id)
    ELSE IF policy = "FIFO" THEN FIFOCache_get_text(text_id)
    ELSE IF policy = "MRU" THEN MRUCache_get_text(text_id)
    ELSE LFUCache_get_text(text_id)

(***************************************************************************)
(* CacheInterface.get_stats                                                *)
(***************************************************************************)
\* the classes of src/ that derive from core.cache_interface.CacheInterface
DerivesCacheInterface == policy \in {"NoCache", "MRU", "LFU"}

\* a get_stats that zeroes the counters it has read
get_stats_ReadAndClear ==
    /\ stats_ret' = [hits |-> hits, misses |-> misses]
    /\ hits' = 0
    /\ misses' = 0
    /\ UNCHANGED <<policy, capacity, cache_data, queue, usage_order, freq, freq_order,
                   time_stamp, clk, per_text_miss, total_time>>

\* lines 52-54: a new dict of the two counters
get_stats ==
    /\ stats_ret' = [hits |-> hits, misses |-> misses]
    /\ UNCHANGED cacheVars

(***************************************************************************)
(* LFUCache.reset_stats and the harness's reset of a class without it      *)
(***************************************************************************)
\* a reset_stats that leaves the logical timestamps of the cleared keys
LFUResetKeepsStamps(keep_cache) ==
    /\ hits' = 0
    /\ misses' = 0
    /\ per_text_miss' = EmptyMap
    /\ total_time' = 0
    /\ clk' = 0
    /\ IF keep_cache
       THEN UNCHANGED <<cache_data, freq, freq_order>>
       ELSE /\ cache_data' = EmptyMap
            /\ freq' = EmptyMap
            /\ freq_order' = <<>>
    /\ UNCHANGED <<policy, capacity, queue, usage_order, time_stamp>>

\* a reset_stats that leaves the frequencies of the cleared keys
LFUResetKeepsFreq(keep_cache) ==
    /\ hits' = 0
    /\ misses' = 0
    /\ per_text_miss' = EmptyMap
    /\ total_time' = 0
    /\ clk' = 0
    /\ IF keep_cache
       THEN UNCHANGED <<cache_data, time_stamp>>
       ELSE /\ cache_data' = EmptyMap
            /\ time_stamp' = EmptyMap
    /\ UNCHANGED <<policy, capacity, queue, usage_order, freq, freq_order>>

\* algorithms/lfu.py lines 102-115
\* fault: a reset_stats that leaves the logical clock running
LFUResetKeepsClock(keep_cache) ==
    /\ hits' = 0
    /\ misses' = 0
    /\ per_text_miss' = EmptyMap
    /\ total_time' = 0
    /\ IF keep_cache
       THEN UNCHANGED <<cache_data, freq, freq_order, time_stamp>>
       ELSE /\ cache_data' = EmptyMap
            /\ freq' = EmptyMap
            /\ freq_order' = <<>>
            /\ time_stamp' = EmptyMap
    /\ UNCHANGED <<policy, capacity, queue, usage_order, clk>>

LFUCache_reset_stats(keep_cache) ==
    /\ hits' = 0
    /\ misses' = 0
    /\ per_text_miss' = EmptyMap
    /\ total_time' = 0
    /\ clk' = 0
    /\ IF keep_cache
       THEN UNCHANGED <<cache_data, freq, freq_order, time_stamp>>
       ELSE /\ cache_data' = EmptyMap
            /\ freq' = EmptyMap
            /\ freq_order' = <<>>
            /\ time_stamp' = EmptyMap
    /\ UNCHANGED <<policy, capacity, queue, usage_order>>

\* fault: a fallback reset that clears the queue and leaves cache_data
SimulatorFallbackResetKeepsData ==
    /\ queue' = <<>>
    /\ hits' = 0
    /\ misses' = 0
    /\ total_time' = 0
    /\ UNCHANGED <<policy, capacity, cache_data, usage_order, freq, freq_order,
                   time_stamp, clk, per_text_miss>>

\* a fallback reset that clears the structures and leaves the counters
SimulatorFallbackResetKeepsCounters ==
    /\ cache_data' = EmptyMap
    /\ queue' = <<>>
    /\ UNCHANGED <<policy, capacity, hits, misses, total_time, usage_order, freq,
                   freq_order, time_stamp, clk, per_text_miss>>

\* simulation/simulator.py: the attributes among cache_data, queue, freq,
\* time_stamp, per_text_miss that the instance has are cleared (usage_order
\* is not in the list), then hits, misses and total_time are zeroed
SimulatorFallbackReset ==
    /\ cache_data' = EmptyMap
    /\ queue' = <<>>
    /\ hits' = 0
    /\ misses' = 0
    /\ total_time' = 0
    /\ UNCHANGED <<policy, capacity, usage_order, freq, freq_order, time_stamp, clk,
                   per_text_miss>>

\* lfu.py: hits, misses, total_time are zeroed and cache_data cleared
LfuFallbackReset ==
    /\ hits' = 0
    /\ misses' = 0
    /\ cache_data' = EmptyMap
    /\ total_time' = 0
    /\ UNCHANGED <<policy, capacity, queue, usage_order, freq, freq_order, time_stamp,
                   clk, per_text_miss>>

\* hasattr(algorithm, 'reset_stats'): only LFUCache defines it
HasResetStats == policy = "LFU"

\* the reset at the top of the loop over the patterns
HarnessReset ==
    IF HasResetStats THEN LFUCache_reset_stats(FALSE)
    ELSE IF variant = "simulator" THEN SimulatorFallbackReset
    ELSE LfuFallbackReset

(***************************************************************************)
(* run_simulation_for_algorithm                                            *)
(***************************************************************************)
\* the names of the `patterns` list, in its order, in each version
PatternNames(v) ==
    IF v = "simulator" THEN <<"Uniforme", "Poisson", "Ponderado">>
    ELSE <<"uniforme", "poisson", "ponderado_30_40">>

\* the pairs (n_users, n_requests_per_user) the model runs
RunSizes ==
    {ur \in (1..MaxPatternReqs) \X (1..MaxPatternReqs) : ur[1] * ur[2] <= MaxPatternReqs}

HarnessIdle ==
    /\ seed = NoSeed
    /\ rng_seed = NoSeed
    /\ rng_stream = <<>>
    /\ rng_pos = 0
    /\ h_pc = "idle"
    /\ h_pat = 0
    /\ h_user = 0
    /\ h_req = 0
    /\ summary = EmptyMap
    /\ run = 1
    /\ first_summary = EmptyMap
    /\ reused = FALSE

\* lines 42-53: the seed is resolved, the random source seeded, summary = {}
HStart ==
    /\ h_pc = "idle"
    /\ \E s \in Seeds :
          /\ seed_arg # NoSeed => s = seed_arg
          /\ seed' = s
          /\ rng_seed' = s
    /\ rng_pos' = 0
    /\ summary' = EmptyMap
    /\ h_pat' = 1
    /\ h_pc' = "reset"
    /\ UNCHANGED <<variant, n_users, n_requests_per_user, seed_arg, rng_stream,
                   h_user, h_req, run, first_summary, reused>>
    /\ UNCHANGED <<cacheVars, obsVars, mainVars, genVars>>

\* lines 60-72: the cache is reset before the pattern's requests
HReset ==
    /\ h_pc = "reset"
    /\ HarnessReset
    /\ ObsReset
    /\ Did("reset")
    /\ UNCHANGED <<stats_ret, mainVars, genVars>>
    /\ h_user' = 0
    /\ h_req' = 0
    /\ h_pc' = "requests"
    /\ UNCHANGED <<variant, n_users, n_requests_per_user, seed_arg, seed, rng_seed,
                   rng_stream,
                   rng_pos, h_pat, summary, run, first_summary, reused>>

\* lines 75-77: one key of the generator goes through get_text; an
\* exception of get_text ends the run
HCall(text_id) ==
    /\ h_pc = "requests"
    /\ h_user < n_users
    /\ get_text(text_id)
    /\ rng_pos' = rng_pos + 1
    /\ IF raised' # "none"
       THEN /\ h_pc' = "raised"
            /\ UNCHANGED <<h_user, h_req>>
       ELSE /\ h_pc' = "requests"
            /\ IF h_req + 1 = n_requests_per_user
               THEN h_user' = h_user + 1 /\ h_req' = 0
               ELSE h_user' = h_user /\ h_req' = h_req + 1
    /\ UNCHANGED <<variant, n_users, n_requests_per_user, seed_arg, seed, rng_seed,
                   h_pat, summary, run, first_summary, reused>>
    /\ UNCHANGED <<mainVars, genVars>>

\* a request whose key is any key the generators can yield
HRequest ==
    /\ \E k \in HKeys : HCall(k)
    /\ UNCHANGED rng_stream

\* a request whose key is the one the seeded random source yields at this
\* position: drawn and recorded the first time, the same ever after
HRequestSeeded ==
    IF rng_pos < Len(rng_stream)
    THEN HCall(rng_stream[rng_pos + 1]) /\ UNCHANGED rng_stream
    ELSE \E k \in HKeys : HCall(k) /\ rng_stream' = Append(rng_stream, k)

\* getattr(algorithm, 'total_time', default): FIFOCache has no such
\* attribute, and the default is 0.0 in simulator.py and None in lfu.py
TotalTimeAttr ==
    IF policy # "FIFO" THEN total_time
    ELSE IF variant = "simulator" THEN 0 ELSE NoTime

\* fault: the entries already written are brought up to the current counters
HSnapshotRewritesAll ==
    /\ h_pc = "requests"
    /\ h_user = n_users
    /\ summary' = [name \in DOMAIN summary \cup {PatternNames(variant)[h_pat]} |->
                      [hits |-> hits, misses |-> misses,
                       total_requests |-> hits + misses,
                       total_time |-> TotalTimeAttr]]
    /\ IF h_pat < NumPatterns
       THEN h_pat' = h_pat + 1 /\ h_pc' = "reset"
       ELSE h_pat' = h_pat /\ h_pc' = "return"
    /\ UNCHANGED <<variant, n_users, n_requests_per_user, seed_arg, seed, rng_seed,
                   rng_stream, rng_pos, h_user, h_req, run, first_summary, reused>>
    /\ UNCHANGED <<cacheVars, obsVars, mainVars, genVars>>

\* lines 82-94: the pattern's entry of the summary
HSnapshot ==
    /\ h_pc = "requests"
    /\ h_user = n_users
    /\ summary' = Put(summary, PatternNames(variant)[h_pat],
                      [hits |-> hits, misses |-> misses,
                       total_requests |-> hits + misses,
                       total_time |-> TotalTimeAttr])
    /\ IF h_pat < NumPatterns
       THEN h_pat' = h_pat + 1 /\ h_pc' = "reset"
       ELSE h_pat' = h_pat /\ h_pc' = "return"
    /\ UNCHANGED <<variant, n_users, n_requests_per_user, seed_arg, seed, rng_seed,
                   rng_stream,
                   rng_pos, h_user, h_req, run, first_summary, reused>>
    /\ UNCHANGED <<cacheVars, obsVars, mainVars, genVars>>

\* a return that records the seed argument, not the seed that was used
HReturnRecordsArgument ==
    /\ h_pc = "return"
    /\ summary' = IF variant = "simulator" THEN Put(summary, "_seed_used", seed_arg)
                  ELSE summary
    /\ h_pc' = "done"
    /\ UNCHANGED <<variant, n_users, n_requests_per_user, seed_arg, seed, rng_seed,
                   rng_stream, rng_pos, h_pat, h_user, h_req, run, first_summary,
                   reused>>
    /\ UNCHANGED <<cacheVars, obsVars, mainVars, genVars>>

\* lines 98-107: simulator.py records the seed and returns the summary
HReturn ==
    /\ h_pc = "return"
    /\ summary' = IF variant = "simulator" THEN Put(summary, "_seed_used", seed)
                  ELSE summary
    /\ h_pc' = "done"
    /\ UNCHANGED <<variant, n_users, n_requests_per_user, seed_arg, seed, rng_seed,
                   rng_stream,
                   rng_pos, h_pat, h_user, h_req, run, first_summary, reused>>
    /\ UNCHANGED <<cacheVars, obsVars, mainVars, genVars>>

\* a second call with the same arguments, on the same instance or on a new
\* one of the same class and capacity
HSecondRun ==
    /\ h_pc = "done"
    /\ run = 1
    /\ run' = 2
    /\ first_summary' = summary
    /\ h_pc' = "idle"
    /\ \E again \in BOOLEAN :
          /\ reused' = again
          /\ IF again THEN UNCHANGED <<cacheVars, obsVars>>
             ELSE Construct(policy, capacity)
    /\ UNCHANGED <<variant, n_users, n_requests_per_user, seed_arg, seed, rng_seed,
                   rng_stream,
                   rng_pos, h_pat, h_user, h_req, summary>>
    /\ UNCHANGED <<mainVars, genVars>>

(***************************************************************************)
(* simulation/simulator.py: the generators of the access patterns          *)
(***************************************************************************)
\* no generator is being iterated
GenIdle ==
    /\ gen_kind = "none"
    /\ gen_n = 0
    /\ gen_out = 0
    /\ gen_key = NoKey
    /\ gen_branch = "none"
    /\ gen_done = FALSE

\* line 131: list(range(30, 41))
favored == 30..40

\* fault: the other keys are all the keys
othersAll == 0..99

\* line 132: [i for i in range(100) if i not in favored]
others == {i \in 0..99 : i \notin favored}

\* the next() that yields key k, drawn on the given branch
GenYield(k, branch) ==
    /\ ~gen_done
    /\ gen_out < gen_n
    /\ gen_out' = gen_out + 1
    /\ gen_key' = k
    /\ gen_branch' = branch
    /\ UNCHANGED <<gen_kind, gen_n, gen_done>>
    /\ UNCHANGED <<cacheVars, obsVars, harnessVars, mainVars>>

\* lines 111-114: random.randint(0, 99)
gen_uniform ==
    /\ gen_kind = "uniform"
    /\ \E k \in 0..99 : GenYield(k, "none")

\* lines 116-126: k counts the draws of Knuth's loop, at least one; the key
\* is (k - 1) % 100
gen_poisson ==
    /\ gen_kind = "poisson"
    /\ \E k \in 1..MaxKnuth : GenYield((k - 1) % 100, "none")

\* lines 128-137: random.random() < 0.43 chooses the list the key is drawn
\* from
gen_weighted_30_40 ==
    /\ gen_kind = "weighted"
    /\ \/ \E k \in favored : GenYield(k, "favored")
       \/ \E k \in others : GenYield(k, "others")

\* the for loop over range(n) ends: the next() raises StopIteration
GenStop ==
    /\ ~gen_done
    /\ gen_out = gen_n
    /\ gen_done' = TRUE
    /\ UNCHANGED <<gen_kind, gen_n, gen_out, gen_key, gen_branch>>
    /\ UNCHANGED <<cacheVars, obsVars, harnessVars, mainVars>>

(***************************************************************************)
(* ra2_main.py: main, the comparison of the algorithms (choice == -1)      *)
(***************************************************************************)
\* line 13
CACHE_CAPACITY == 10

\* lines 142-147: the names of the candidates, in the order of the list
candidates == <<"NoCache", "FIFO", "LFU", "MRU">>

\* the keys of a summary whose value is not a per-pattern dict:
\* simulator.py line 98 stores the int seed under "_seed_used"
NonDictValues(sm) == {name \in DOMAIN sm : name = "_seed_used"}

RECURSIVE SumField(_, _, _)
\* sum(p[field] for p in summary.values()) over the keys in names
SumField(sm, field, names) ==
    IF names = {} THEN 0
    ELSE LET name == CHOOSE n \in names : TRUE
         IN  sm[name][field] + SumField(sm, field, names \ {name})

\* a hit rate <<hits, requests>> is at least another
RateGE(a, b) == a[1] * b[2] >= b[1] * a[2]

\* line 171: max(results.items(), key=hit_rate) is the first entry, in the
\* order of insertion, whose rate no other entry exceeds
BestName(res) ==
    LET isMax(i) == \A j \in 1..Len(candidates) :
                        RateGE(res[candidates[i]], res[candidates[j]])
        first == CHOOSE i \in 1..Len(candidates) :
                    isMax(i) /\ \A j \in 1..(i - 1) : ~isMax(j)
    IN  candidates[first]

\* the user enters -1: the candidates are instantiated (lines 142-147) and
\* the loop of line 150 starts with the first
CmpStart ==
    /\ main_pc = "menu"
    /\ user_input' = "int"
    /\ choice' = -1
    /\ best_cache_instance' = IF best_cache_name = "None" THEN <<>> ELSE cacheVars
    /\ main_pc' = "simulating"
    /\ cand' = 1
    /\ results' = EmptyMap
    /\ Construct(candidates[1], CACHE_CAPACITY)
    /\ UNCHANGED <<best_cache_name, harnessVars>>
    /\ UNCHANGED genVars

\* lines 157-168 for the candidate whose simulation has returned: the sums
\* over summary.values() subscript every value, which raises TypeError on a
\* value that is an int; otherwise the rate is stored and the loop goes on
CmpAggregate ==
    /\ main_pc = "simulating"
    /\ h_pc = "done"
    /\ UNCHANGED genVars
    /\ IF NonDictValues(summary) # {}
       THEN /\ main_pc' = "TypeError"
            /\ UNCHANGED <<cand, results, best_cache_name, best_cache_instance,
                           user_input, choice>>
            /\ UNCHANGED <<cacheVars, obsVars, harnessVars>>
       ELSE LET total_hits == SumField(summary, "hits", DOMAIN summary)
                summed == SumField(summary, "total_requests", DOMAIN summary)
                total_requests == IF summed = 0 THEN 1 ELSE summed
            IN  /\ results' = Put(results, candidates[cand],
                                  <<total_hits, total_requests>>)
                /\ UNCHANGED <<best_cache_name, best_cache_instance, user_input,
                               choice, variant, n_users, n_requests_per_user,
                               seed_arg>>
                /\ IF cand < Len(candidates)
                   THEN /\ cand' = cand + 1
                        /\ main_pc' = "simulating"
                        /\ Construct(candidates[cand + 1], CACHE_CAPACITY)
                        /\ HarnessIdle'
                   ELSE /\ cand' = cand
                        /\ main_pc' = "select"
                        /\ UNCHANGED <<cacheVars, obsVars, seed, rng_seed,
                                       rng_stream, rng_pos, h_pc, h_pat, h_user,
                                       h_req, summary, run, first_summary,
                                       reused>>

\* lines 171-192: the best of the results is selected and a new instance
\* of its class replaces main's best_cache_instance
CmpSelect ==
    /\ main_pc = "select"
    /\ best_cache_name' = BestName(results)
    /\ Construct(BestName(results), CACHE_CAPACITY)
    /\ best_cache_instance' = <<>>
    /\ main_pc' = "menu"
    /\ UNCHANGED <<cand, results, user_input, choice, harnessVars, genVars>>

(***************************************************************************)
(* ra2_main.py: main, the loop of the prompt                               *)
(***************************************************************************)
\* an input that changes nothing but what was read
CliContinue(kind, n) ==
    /\ main_pc = "menu"
    /\ user_input' = kind
    /\ choice' = n
    /\ UNCHANGED <<main_pc, cand, results, best_cache_name, best_cache_instance>>
    /\ UNCHANGED <<cacheVars, obsVars, harnessVars, genVars>>

\* lines 118-125: 'c' prints the keys of the active cache, if there is one
CliShowKeys == CliContinue("c", choice)

\* lines 127-130: a line that is not digits once its leading '-' are
\* stripped
CliInvalid == CliContinue("text", choice)

\* lines 127-132: a line such as '--5' is digits once its leading '-' are
\* stripped, and int() raises ValueError on it
CliMalformed ==
    /\ main_pc = "menu"
    /\ user_input' = "malformed"
    /\ main_pc' = "ValueError"
    /\ UNCHANGED <<cand, results, best_cache_name, best_cache_instance, choice>>
    /\ UNCHANGED <<cacheVars, obsVars, harnessVars, genVars>>

\* lines 134-136: 0 leaves the loop
CliQuit ==
    /\ main_pc = "menu"
    /\ user_input' = "int"
    /\ choice' = 0
    /\ main_pc' = "exit"
    /\ UNCHANGED <<cand, results, best_cache_name, best_cache_instance>>
    /\ UNCHANGED <<cacheVars, obsVars, harnessVars, genVars>>

\* the numbers that are neither 0, -1 nor the id of a document
OutOfRange == {-2, NumKeys + 1}

\* lines 195-199
CliOutOfRange == \E n \in OutOfRange : CliContinue("int", n)

\* fault: every read makes a new FIFOCache
CliReadCreatesAlways ==
    /\ main_pc = "menu"
    /\ Len(history) < CliMaxReads
    /\ user_input' = "int"
    /\ \E k \in Keys : choice' = k
    /\ Construct("FIFO", CACHE_CAPACITY)
    /\ best_cache_name' = "FIFO"
    /\ main_pc' = "read"
    /\ UNCHANGED <<cand, results, best_cache_instance, harnessVars, genVars>>

\* lines 195-209: the id of a document; without an active cache a
\* FIFOCache is made
CliRead ==
    /\ main_pc = "menu"
    /\ Len(history) < CliMaxReads
    /\ user_input' = "int"
    /\ \E k \in Keys : choice' = k
    /\ IF best_cache_name = "None"
       THEN /\ Construct("FIFO", CACHE_CAPACITY)
            /\ best_cache_name' = "FIFO"
       ELSE UNCHANGED <<cacheVars, obsVars, best_cache_name>>
    /\ main_pc' = "read"
    /\ UNCHANGED <<cand, results, best_cache_instance, harnessVars, genVars>>

\* line 213: get_text on the active cache; nothing catches what it raises
CliGetText ==
    /\ main_pc = "read"
    /\ get_text(choice)
    /\ main_pc' = IF raised' # "none" THEN "raised" ELSE "display"
    /\ UNCHANGED <<cand, results, best_cache_name, best_cache_instance,
                   user_input, choice>>
    /\ UNCHANGED <<harnessVars, genVars>>

\* get_stats of the base class of FIFOCache, algorithms/cache_interface.py:
\* a pure read of the two counters
CacheBase_get_stats ==
    /\ stats_ret' = [hits |-> hits, misses |-> misses]
    /\ UNCHANGED cacheVars

\* line 214: _display_text prints the text and the get_stats of the cache
CliDisplay ==
    /\ main_pc = "display"
    /\ IF DerivesCacheInterface THEN get_stats ELSE CacheBase_get_stats
    /\ Did("get_stats")
    /\ main_pc' = "menu"
    /\ UNCHANGED <<history, ins_at, touched_at, disk_reads, last_ret, last_victim,
                   raised, steps>>
    /\ UNCHANGED <<cand, results, best_cache_name, best_cache_instance,
                   user_input, choice>>
    /\ UNCHANGED <<harnessVars, genVars>>

(***************************************************************************)
(* Specifications                                                          *)
(***************************************************************************)
\* main() has not entered the comparison
MainIdle ==
    /\ main_pc = "menu"
    /\ cand = 0
    /\ results = EmptyMap
    /\ best_cache_name = "None"
    /\ best_cache_instance = <<>>
    /\ user_input = "none"
    /\ choice = 0

\* Spec: a cache of any class and capacity, and any get_text calls on it
Init ==
    /\ \E p \in Policies, cap \in 1..MaxCap : Constructed(p, cap)
    /\ variant = "simulator"
    /\ n_users = 1
    /\ n_requests_per_user = 1
    /\ seed_arg = NoSeed
    /\ HarnessIdle
    /\ MainIdle
    /\ GenIdle

FIFOCall ==
    /\ policy = "FIFO"
    /\ Len(history) < MaxCalls
    /\ \E k \in Keys : FIFOCache_get_text(k)
    /\ UNCHANGED <<harnessVars, mainVars, genVars>>

MRUCall ==
    /\ policy = "MRU"
    /\ Len(history) < MaxCalls
    /\ \E k \in Keys : MRUCache_get_text(k)
    /\ UNCHANGED <<harnessVars, mainVars, genVars>>

LFUCall ==
    /\ policy = "LFU"
    /\ Len(history) < MaxCalls
    /\ \E k \in Keys : LFUCache_get_text(k)
    /\ UNCHANGED <<harnessVars, mainVars, genVars>>

Next == FIFOCall \/ MRUCall \/ LFUCall

Spec == Init /\ [][Next]_vars

\* SpecHarness: one run of either harness on a new cache of any class
HarnessInit ==
    /\ \E p \in Policies, cap \in 1..HMaxCap : Constructed(p, cap)
    /\ variant \in {"simulator", "lfu"}
    /\ \E ur \in RunSizes : n_users = ur[1] /\ n_requests_per_user = ur[2]
    /\ seed_arg \in (IF variant = "simulator" THEN {NoSeed} ELSE {}) \cup Seeds
    /\ HarnessIdle
    /\ MainIdle
    /\ GenIdle

HarnessNext == HStart \/ HReset \/ HRequest \/ HSnapshot \/ HReturn

SpecHarness == HarnessInit /\ [][HarnessNext]_vars

\* SpecRepro: two runs with the same explicit seed, the second on the
\* instance of the first or on a new one
ReproInit ==
    /\ HarnessInit
    /\ seed_arg # NoSeed

ReproNext == HStart \/ HReset \/ HRequestSeeded \/ HSnapshot \/ HReturn \/ HSecondRun

SpecRepro == ReproInit /\ [][ReproNext]_vars

\* SpecCompare: main at its prompt, the user asking for the comparison.
\* n_users and n_requests_per_user stand for the defaults of the harness.
CompareInit ==
    /\ Constructed(candidates[1], CACHE_CAPACITY)
    /\ variant = "simulator"
    /\ \E ur \in RunSizes : n_users = ur[1] /\ n_requests_per_user = ur[2]
    /\ seed_arg = NoSeed
    /\ HarnessIdle
    /\ MainIdle
    /\ GenIdle

\* line 154: the harness runs on the current candidate
CmpSimulate ==
    /\ main_pc = "simulating"
    /\ HStart \/ HReset \/ HRequest \/ HSnapshot \/ HReturn

\* CmpSelect is no disjunct: main_pc never becomes "select" (C13)
CompareNext == CmpStart \/ CmpSimulate \/ CmpAggregate

SpecCompare == CompareInit /\ [][CompareNext]_vars

\* SpecCLI: main at its prompt, and any lines typed at it.  The harness
\* runs one user with one request.
CLIInit ==
    /\ Constructed(candidates[1], CACHE_CAPACITY)
    /\ variant = "simulator"
    /\ n_users = 1
    /\ n_requests_per_user = 1
    /\ seed_arg = NoSeed
    /\ HarnessIdle
    /\ MainIdle
    /\ GenIdle

CLINext ==
    \/ CliShowKeys \/ CliInvalid \/ CliMalformed \/ CliQuit \/ CliOutOfRange
    \/ CliRead \/ CliGetText \/ CliDisplay
    \/ CmpStart \/ CmpSimulate \/ CmpAggregate

SpecCLI == CLIInit /\ [][CLINext]_vars

\* SpecFail: a cache of one of the three classes whose disk reader may
\* raise at any call, the caller going on with the instance afterwards
FailInit ==
    /\ \E p \in Policies, cap \in 1..OpsMaxCap : Constructed(p, cap)
    /\ variant = "simulator"
    /\ n_users = 1
    /\ n_requests_per_user = 1
    /\ seed_arg = NoSeed
    /\ HarnessIdle
    /\ MainIdle
    /\ GenIdle

FailGetText ==
    /\ Len(history) < OpsMaxCalls
    /\ \E k \in OpsKeys : get_text(k)
    /\ UNCHANGED <<harnessVars, mainVars, genVars>>

FailReaderRaises ==
    /\ Len(history) < OpsMaxCalls
    /\ \E k \in OpsKeys : get_text_ReaderRaises(k)
    /\ UNCHANGED <<harnessVars, mainVars, genVars>>

FailNext == FailGetText \/ FailReaderRaises

SpecFail == FailInit /\ [][FailNext]_vars

\* SpecGen: one generator called with some n and iterated to its end
GenInit ==
    /\ Constructed("NoCache", CACHE_CAPACITY)
    /\ variant = "simulator"
    /\ n_users = 1
    /\ n_requests_per_user = 1
    /\ seed_arg = NoSeed
    /\ HarnessIdle
    /\ MainIdle
    /\ gen_kind \in {"uniform", "poisson", "weighted"}
    /\ gen_n \in 0..MaxGenCount
    /\ gen_out = 0
    /\ gen_key = NoKey
    /\ gen_branch = "none"
    /\ gen_done = FALSE

GenNext == gen_uniform \/ gen_poisson \/ gen_weighted_30_40 \/ GenStop

SpecGen == GenInit /\ [][GenNext]_vars

\* SpecResets: a cache of any of the three classes, and any interleaving of
\* get_text calls with the resets made on it: reset_stats with either
\* keep_cache value on an LFUCache, the reset of either harness on a
\* FIFOCache or an MRUCache
ResetsInit ==
    /\ \E p \in Policies, cap \in 1..OpsMaxCap : Constructed(p, cap)
    /\ variant = "simulator"
    /\ n_users = 1
    /\ n_requests_per_user = 1
    /\ seed_arg = NoSeed
    /\ HarnessIdle
    /\ MainIdle
    /\ GenIdle

RstGetText ==
    /\ Len(history) < OpsMaxCalls
    /\ \E k \in OpsKeys : get_text(k)
    /\ UNCHANGED <<harnessVars, mainVars, genVars>>

RstFallbackReset ==
    /\ ~HasResetStats
    /\ Len(queue) <= MaxStale
    /\ SimulatorFallbackReset \/ LfuFallbackReset
    /\ ObsReset
    /\ Did("reset")
    /\ UNCHANGED stats_ret
    /\ UNCHANGED <<harnessVars, mainVars, genVars>>

\* SpecOps: a cache of any class, and any interleaving of get_text,
\* get_stats and (LFUCache) reset_stats calls on it.  Key 0 is a document
\* that is not on the disk.
OpsInit ==
    /\ \E p \in OpsPolicies, cap \in 1..OpsMaxCap : Constructed(p, cap)
    /\ variant = "simulator"
    /\ n_users = 1
    /\ n_requests_per_user = 1
    /\ seed_arg = NoSeed
    /\ HarnessIdle
    /\ MainIdle
    /\ GenIdle

OpsGetText ==
    /\ Len(history) < OpsMaxCalls
    /\ \E k \in OpsKeys : get_text(k)
    /\ UNCHANGED <<harnessVars, mainVars, genVars>>

OpsGetStats ==
    /\ DerivesCacheInterface
    /\ get_stats
    /\ Did("get_stats")
    /\ UNCHANGED <<history, ins_at, touched_at, disk_reads, last_ret, last_victim,
                   raised, steps>>
    /\ UNCHANGED <<harnessVars, mainVars, genVars>>

OpsResetStats ==
    /\ HasResetStats
    /\ \E keep_cache \in BOOLEAN :
          /\ LFUCache_reset_stats(keep_cache)
          /\ IF keep_cache
             THEN /\ Did("reset_stats(keep_cache=True)")
                  /\ UNCHANGED <<history, ins_at, touched_at, disk_reads, last_ret,
                                 last_victim, raised, steps>>
             ELSE /\ Did("reset_stats(keep_cache=False)")
                  /\ ObsReset
    /\ UNCHANGED stats_ret
    /\ UNCHANGED <<harnessVars, mainVars, genVars>>

OpsNext == OpsGetText \/ OpsGetStats \/ OpsResetStats

SpecOps == OpsInit /\ [][OpsNext]_vars

ResetsNext == RstGetText \/ OpsResetStats \/ RstFallbackReset

SpecResets == ResetsInit /\ [][ResetsNext]_vars

(***************************************************************************)
(* Properties of get_text, under Spec                                      *)
(***************************************************************************)
\* the resident keys
Resident == DOMAIN cache_data

\* this step is a get_text call; CallKey is its text_id
IsCall == Len(history') = Len(history) + 1
CallKey == history'[Len(history')]
IsHitStep == IsCall /\ CallKey \in Resident
IsMissStep == IsCall /\ CallKey \notin Resident

\* the last call was a hit
LastWasHit ==
    /\ history # <<>>
    /\ history[Len(history)] \in DOMAIN ins_at
    /\ ins_at[history[Len(history)]] < Len(history)

\* the step replaces resident key v by the requested key
Replaces(v) == Resident' = (Resident \ {v}) \cup {CallKey}

\* C1: for each of the three policies and every capacity >= 1, after every
\* get_text call the number of keys in cache_data is at most the capacity.
C1_SizeAtMostCapacity == Cardinality(Resident) <= capacity

\* a full cache has just evicted a key to take a new one
C1_Witness ==
    /\ Cardinality(Resident) = capacity
    /\ last_victim # NoKey
    /\ hits > 0

\* C2: after every get_text call the keys of cache_data are exactly the keys
\* of the policy's order structure: the FIFO queue, the MRU usage_order, and
\* for LFU both freq and time_stamp (an eviction removes the victim from all
\* three together).
C2_NoOrphans ==
    /\ policy = "FIFO" => SeqKeys(queue) = Resident
    /\ policy = "MRU" => SeqKeys(usage_order) = Resident
    /\ policy = "LFU" => /\ DOMAIN freq = Resident
                         /\ DOMAIN time_stamp = Resident
                         /\ SeqKeys(freq_order) = Resident

\* an LFU cache that has just evicted
C2_Witness ==
    /\ policy = "LFU"
    /\ last_victim # NoKey
    /\ last_victim \notin Resident

\* C3: in FIFOCache a miss on a full cache evicts the resident key inserted
\* earliest, whatever hits were made since; while at most `capacity`
\* distinct keys have been requested the first key stays, and the request of
\* the (capacity+1)-th distinct key evicts it (capacity 3, [1,2,3,4] leaves
\* {2,3,4}).
C3_Step ==
    (policy = "FIFO" /\ IsMissStep /\ Cardinality(Resident) = capacity) =>
        \E v \in Resident :
            /\ \A k \in Resident : ins_at[v] <= ins_at[k]
            /\ last_victim' = v
            /\ Replaces(v)

C3_FirstKey ==
    (policy = "FIFO" /\ history # <<>>) =>
        /\ Cardinality(SeqKeys(history)) <= capacity => history[1] \in Resident
        /\ ( /\ Cardinality(SeqKeys(history)) = capacity + 1
             /\ history[Len(history)] \notin SeqKeys(SubSeq(history, 1, Len(history) - 1)) )
           => /\ Resident = SeqKeys(history) \ {history[1]}
              /\ last_victim = history[1]
        /\ (capacity = 3 /\ history = <<1, 2, 3, 4>>) => Resident = {2, 3, 4}

C3_FIFOEvictsOldest == [][C3_Step /\ C3_FirstKey']_vars

\* key 1 was hit after its insertion and is evicted all the same
C3_Witness ==
    /\ policy = "FIFO"
    /\ capacity = 3
    /\ history = <<1, 2, 3, 1, 4>>
    /\ last_victim = 1

\* C4: in MRUCache a miss on a full cache evicts the resident key accessed
\* most recently, which is the key of the call just before, never the
\* incoming key (capacity 3, [1,2,3,1,4] evicts 1 and leaves {2,3,4}).
C4_Step ==
    (policy = "MRU" /\ IsMissStep /\ Cardinality(Resident) = capacity) =>
        LET v == history[Len(history)]
        IN  /\ v \in Resident
            /\ v # CallKey
            /\ \A k \in Resident : touched_at[k] <= touched_at[v]
            /\ last_victim' = v
            /\ Replaces(v)

C4_Example ==
    (policy = "MRU" /\ capacity = 3 /\ history = <<1, 2, 3, 1, 4>>) =>
        Resident = {2, 3, 4} /\ last_victim = 1

C4_MRUEvictsMostRecent == [][C4_Step /\ C4_Example']_vars

C4_Witness ==
    /\ policy = "MRU"
    /\ capacity = 3
    /\ history = <<1, 2, 3, 1, 4>>
    /\ last_victim = 1

\* C5: in LFUCache a miss on a full cache evicts a resident key of minimum
\* frequency, and among the resident keys of that frequency the one touched
\* least recently (capacity 3, [1,2,3,1,2,4] evicts 3 and leaves {1,2,4}
\* with frequencies 1:2, 2:2, 4:1).
C5_Step ==
    (policy = "LFU" /\ IsMissStep /\ Cardinality(Resident) = capacity) =>
        \E v \in Resident :
            /\ \A k \in Resident : freq[v] <= freq[k]
            /\ \A k \in Resident : freq[k] = freq[v] => touched_at[v] <= touched_at[k]
            /\ last_victim' = v
            /\ Replaces(v)

C5_Example ==
    (policy = "LFU" /\ capacity = 3 /\ history = <<1, 2, 3, 1, 2, 4>>) =>
        /\ Resident = {1, 2, 4}
        /\ last_victim = 3
        /\ freq[1] = 2 /\ freq[2] = 2 /\ freq[4] = 1

C5_LFUEvictsLeastFrequent == [][C5_Step /\ C5_Example']_vars

\* a tie of two keys of frequency 1 was broken: 2 and 3 were candidates
C5_Witness ==
    /\ policy = "LFU"
    /\ capacity = 3
    /\ history = <<1, 2, 3, 1, 4>>
    /\ last_victim = 2

\* C6: for every policy a get_text on a resident key adds one to hits,
\* leaves misses alone, does not call the disk reader, and leaves the
\* resident keys and their contents as they were (nothing is evicted).
C6_Step ==
    IsHitStep =>
        /\ hits' = hits + 1
        /\ misses' = misses
        /\ disk_reads' = disk_reads
        /\ cache_data' = cache_data
        /\ last_victim' = NoKey

C6_HitFrame == [][C6_Step]_vars

\* a hit on a full cache
C6_Witness ==
    /\ LastWasHit
    /\ Cardinality(Resident) = capacity

\* C7: for every policy a get_text on an absent key adds one to misses,
\* leaves hits alone, calls the disk reader once, removes exactly one
\* resident key if the cache held `capacity` keys and none otherwise, and
\* leaves the requested key resident.
C7_Step ==
    IsMissStep =>
        /\ misses' = misses + 1
        /\ hits' = hits
        /\ disk_reads' = disk_reads + 1
        /\ CallKey \in Resident'
        /\ IF Cardinality(Resident) = capacity
           THEN \E v \in Resident : Replaces(v)
           ELSE Resident' = Resident \cup {CallKey}
        /\ \A k \in Resident \cap Resident' : cache_data'[k] = cache_data[k]

C7_MissEffect == [][C7_Step]_vars

\* a miss that evicted, on a cache that also took keys without evicting
C7_Witness ==
    /\ ~LastWasHit
    /\ last_victim # NoKey
    /\ capacity > 1

\* C8: for every policy, with a disk reader that is a fixed function of
\* the key, every get_text(k) returns the reader's value for k, on a hit
\* as on a miss.
C8_ReturnsReaderValue ==
    history # <<>> => /\ raised = "none"
                      /\ last_ret = DiskReader(history[Len(history)])

\* a hit on a key that is not the smallest resident one
C8_Witness ==
    /\ LastWasHit
    /\ \E k \in Resident : k < history[Len(history)]

(***************************************************************************)
(* Properties of the harness                                               *)
(***************************************************************************)
\* the harness has reset the cache and made no request of the pattern yet
AtPatternStart == h_pc = "requests" /\ h_user = 0 /\ h_req = 0

\* C9: the harness resets the cache before each pattern so that every
\* pattern starts from the same empty state, for every policy: cache_data
\* and the eviction bookkeeping (queue, usage_order, freq, time_stamp) are
\* empty, and hits, misses and total_time are zero.  Checked under
\* SpecHarness.
C9_PatternStartsEmpty ==
    AtPatternStart =>
        /\ Resident = {}
        /\ queue = <<>>
        /\ usage_order = <<>>
        /\ DOMAIN freq = {}
        /\ DOMAIN time_stamp = {}
        /\ hits = 0
        /\ misses = 0
        /\ total_time = 0

\* the entries of the patterns in a returned summary
PatternEntries(sm) == [i \in 1..NumPatterns |->
                          <<sm[PatternNames(variant)[i]].hits,
                            sm[PatternNames(variant)[i]].misses>>]

\* C10: with an explicit seed, two runs of run_simulation_for_algorithm
\* (simulation/simulator.py) with the same policy, capacity, seed and
\* pattern order give the same hits and misses for every pattern, also when
\* the second run is made on the instance the first run left behind.
\* Checked under SpecRepro.
C10_SameSeedSameCounts ==
    (variant = "simulator" /\ run = 2 /\ h_pc = "done") =>
        PatternEntries(summary) = PatternEntries(first_summary)


\* a step that is the call of the operation op on the instance
IsOp(op) == last_ops'[2] = op /\ last_ops'[1] = last_ops[2]

FullReset == "reset_stats(keep_cache=False)"

\* the state of the attributes of an LFUCache that its constructor leaves
LFUAsConstructed ==
    /\ hits = 0
    /\ misses = 0
    /\ cache_data = EmptyMap
    /\ freq = EmptyMap
    /\ freq_order = <<>>
    /\ time_stamp = EmptyMap
    /\ clk = 0
    /\ per_text_miss = EmptyMap
    /\ total_time = 0

\* C11: a reset_stats(keep_cache=False) that directly follows another one
\* changes no attribute of the cache, and after it hits and misses are 0 and
\* cache_data, freq, time_stamp and the per-key statistics are empty.
C11_Step ==
    (last_ops[2] = FullReset /\ IsOp(FullReset)) =>
        /\ cacheVars' = cacheVars
        /\ hits' = 0 /\ misses' = 0
        /\ cache_data' = EmptyMap
        /\ freq' = EmptyMap
        /\ time_stamp' = EmptyMap
        /\ per_text_miss' = EmptyMap

C11_ResetTwiceSameAsOnce == [][C11_Step]_vars

C11_Witness ==
    /\ policy = "LFU"
    /\ last_ops = <<FullReset, FullReset>>
    /\ cache_data = EmptyMap

\* C12: reset_stats(keep_cache=False), from any state, leaves every
\* attribute that get_text reads or writes as the constructor leaves it, with
\* the capacity it had: the calls that follow find the cache of a new
\* instance, so their hits, misses, victims and counters are those of one.
\* The first of them is a miss that evicts nothing.
C12_Step ==
    /\ IsOp(FullReset) =>
           /\ LFUAsConstructed'
           /\ capacity' = capacity
           /\ policy' = policy
    /\ (last_ops[2] = FullReset /\ IsOp("get_text")) =>
           /\ hits' = 0 /\ misses' = 1
           /\ last_victim' = NoKey
           /\ DOMAIN cache_data' = {CallKey}
           /\ clk' = 1

C12_ResetIsAsNew == [][C12_Step]_vars

C12_Witness ==
    /\ policy = "LFU"
    /\ last_ops = <<"get_text", FullReset>>
    /\ LFUAsConstructed

\* C13: when the simulation of a candidate has returned, the driver goes on
\* to store the candidate's aggregate hit rate (the hits of all patterns
\* over their total_requests) without raising.
C13_Step ==
    (main_pc = "simulating" /\ h_pc = "done" /\ main_pc' # main_pc) =>
        /\ main_pc' \in {"simulating", "select"}
        /\ candidates[cand] \in DOMAIN results'
        /\ LET names == DOMAIN summary \ {"_seed_used"}
           IN  results'[candidates[cand]][1] = SumField(summary, "hits", names)

C13_AggregateWithoutError == [][C13_Step]_vars

\* C14: when the comparison has ended, a best policy has been selected and
\* its aggregate hit rate is at least that of every candidate.
C14_BestIsMaximal ==
    (main_pc \notin {"menu", "simulating"} \/ best_cache_name # "None") =>
        /\ best_cache_name \in DOMAIN results
        /\ DOMAIN results = {candidates[i] : i \in 1..Len(candidates)}
        /\ \A name \in DOMAIN results :
               RateGE(results[best_cache_name], results[name])

\* the keys of the summary in the order uniform, Poisson, weighted
C15_Order ==
    IF variant = "simulator" THEN <<"Uniforme", "Poisson", "Ponderado">>
    ELSE <<"uniforme", "poisson", "ponderado_30_40">>

\* the patterns whose entry the run has written so far
C15_Written ==
    IF h_pc = "idle" THEN 0
    ELSE IF h_pc \in {"return", "done"} THEN 3
    ELSE h_pat - 1

\* C15: for every policy, each pattern's entry of the summary has
\* total_requests = hits + misses = n_users * n_requests_per_user, and the
\* entries are written in the order uniform, Poisson, weighted: the ones
\* present are always the first of that order.  Checked under SpecHarness.
C15_EntriesCountEveryRequest ==
    /\ DOMAIN summary \ {"_seed_used"} = {C15_Order[i] : i \in 1..C15_Written}
    /\ \A name \in DOMAIN summary \ {"_seed_used"} :
          /\ summary[name].total_requests = summary[name].hits + summary[name].misses
          /\ summary[name].total_requests = n_users * n_requests_per_user

C15_Witness ==
    /\ h_pc = "done"
    /\ n_users * n_requests_per_user = MaxPatternReqs
    /\ n_users > 1
    /\ summary[C15_Order[2]].hits > 0
    /\ summary[C15_Order[3]].misses > 1

\* C16: in simulation/simulator.py the random source is seeded with the
\* seed argument when one is given and with a drawn seed otherwise, and the
\* value recorded under "_seed_used" is the one the source was seeded with.
\* Checked under SpecHarness.
C16_SeedUsedIsRecorded ==
    variant = "simulator" =>
        /\ h_pc # "idle" =>
               /\ rng_seed \in Seeds
               /\ seed_arg # NoSeed => rng_seed = seed_arg
        /\ h_pc = "done" =>
               /\ "_seed_used" \in DOMAIN summary
               /\ summary["_seed_used"] = rng_seed

\* no seed was given, one was drawn, and it is in the returned summary
C16_Witness ==
    /\ variant = "simulator"
    /\ h_pc = "done"
    /\ seed_arg = NoSeed
    /\ rng_seed = MaxSeed
    /\ summary["_seed_used"] = MaxSeed

\* the document of key k is not on the disk: the reader returns its marker
IsErrorMarker(k) == DiskReader(k)[1] = "ERRO"

\* C17: the error marker the reader returns for a document that is not on
\* the disk is stored like any content: a get_text of such a key that is not
\* resident (as at its first request) is a miss that stores the marker, and
\* a get_text of it while it is resident is a hit that returns the same
\* marker without a disk read.  Checked under SpecOps, whose key 0 is such
\* a document, for the three caching classes.
C17_Step ==
    (policy # "NoCache" /\ IsCall /\ IsErrorMarker(CallKey)) =>
        /\ raised' = "none"
        /\ last_ret' = DiskReader(CallKey)
        /\ CallKey \in Resident'
        /\ cache_data'[CallKey] = DiskReader(CallKey)
        /\ CallKey \notin DOMAIN touched_at => CallKey \notin Resident
        /\ IF CallKey \in Resident
           THEN hits' = hits + 1 /\ misses' = misses /\ disk_reads' = disk_reads
           ELSE hits' = hits /\ misses' = misses + 1 /\ disk_reads' = disk_reads + 1

C17_ErrorMarkerIsCached == [][C17_Step]_vars

\* the marker of key 0 was stored by a miss and the last call hit it
C17_Witness ==
    /\ policy = "FIFO"
    /\ Len(history) >= 2
    /\ IsErrorMarker(history[Len(history)])
    /\ LastWasHit
    /\ last_ret = <<"ERRO", history[Len(history)]>>
    /\ disk_reads = misses
    /\ hits > 0

NoDup(order) ==
    \A i, j \in 1..Len(order) : i # j => order[i] # order[j]

\* C18: for every policy and every sequence of get_text calls, no key is
\* twice in the order structure (the FIFO queue, MRU's usage_order, the
\* order of LFU's freq), a key becomes resident only by a miss on it, and
\* every victim is resident in cache_data when it is chosen and absent
\* afterwards.  Checked under Spec.
C18_Step ==
    /\ NoDup(queue') /\ NoDup(usage_order') /\ NoDup(freq_order')
    /\ policy = "FIFO" => SeqKeys(queue') = Resident'
    /\ policy = "MRU" => SeqKeys(usage_order') = Resident'
    /\ IsCall =>
          /\ Resident' \ Resident \subseteq {CallKey}
          /\ CallKey \in Resident => Resident' = Resident
          /\ last_victim' # NoKey =>
                 /\ last_victim' \in Resident
                 /\ last_victim' \notin Resident'
                 /\ Resident \ Resident' = {last_victim'}

C18_KeyLifecycle == [][C18_Step]_vars

\* a key of a FIFO cache that was inserted, evicted, and inserted again,
\* and then hit
C18_Witness ==
    /\ policy = "FIFO"
    /\ last_victim = NoKey
    /\ LastWasHit
    /\ \E i \in 1..Len(history) :
          /\ history[i] = history[Len(history)]
          /\ i < ins_at[history[i]]

RECURSIVE SumCounts(_, _)
SumCounts(c, keys) ==
    IF keys = {} THEN 0
    ELSE LET k == CHOOSE x \in keys : TRUE
         IN  c[k] + SumCounts(c, keys \ {k})

\* C19 as stated: for every policy, after any sequence of get_text calls
\* the per-key miss counts sum to misses and every disk read is counted
\* into total_time.
C19_EveryPolicyCountsPerKey ==
    /\ SumCounts(per_text_miss, DOMAIN per_text_miss) = misses
    /\ total_time = disk_reads

\* C19 amended: in LFUCache each miss records a per-key miss count for the
\* requested key and counts the disk read into total_time, so the per-key
\* miss counts sum to misses; MRUCache counts the disk read into
\* total_time and keeps no per-key miss count; FIFOCache keeps neither.
C19_LFUCountsPerKey ==
    /\ policy = "LFU" =>
          /\ SumCounts(per_text_miss, DOMAIN per_text_miss) = misses
          /\ DOMAIN per_text_miss = DOMAIN ins_at
          /\ total_time = disk_reads
          /\ total_time = misses
    /\ policy = "MRU" =>
          /\ per_text_miss = EmptyMap
          /\ total_time = disk_reads
          /\ total_time = misses
    /\ policy = "FIFO" =>
          /\ per_text_miss = EmptyMap
          /\ total_time = 0

\* an LFU cache with a hit and a key that missed twice
C19_Witness ==
    /\ policy = "LFU"
    /\ hits > 0
    /\ misses >= 3
    /\ \E k \in DOMAIN per_text_miss : per_text_miss[k] >= 2

\* C20: get_stats returns the current hits and misses and changes no
\* attribute of the cache.  Checked under SpecOps for the classes that
\* derive from CacheInterface.
C20_Step ==
    IsOp("get_stats") =>
        /\ stats_ret' = [hits |-> hits, misses |-> misses]
        /\ cacheVars' = cacheVars

C20_GetStatsIsPure == [][C20_Step]_vars

C20_Witness ==
    /\ last_ops = <<"get_text", "get_stats">>
    /\ stats_ret = [hits |-> hits, misses |-> misses]
    /\ hits > 0
    /\ misses > 1
    /\ Resident # {}

\* C21: for every policy, a miss reads the disk, then evicts if the cache
\* is full, then inserts: in what a get_text did, no eviction comes before
\* the disk read and the insertion comes last.
C21_ReadThenEvictThenInsert ==
    /\ \A i, j \in 1..Len(steps) :
          (steps[i] = "evict" /\ steps[j] = "read") => j < i
    /\ \A i \in 1..Len(steps) : steps[i] = "insert" => i = Len(steps)

\* the calls on resident key k since its latest insertion: all are hits
HitsSinceInsertion(k) ==
    Cardinality({i \in (ins_at[k] + 1)..Len(history) : history[i] = k})

\* C22: in LFUCache the frequency of a resident key is 1 plus the number
\* of hits on it since its latest insertion, and every get_text call, hit or
\* miss, advances the logical clock by one and sets the timestamp of the
\* requested key to the new clock value.  Checked under Spec.
C22_Step ==
    (policy = "LFU" /\ IsCall) =>
        /\ clk' = clk + 1
        /\ time_stamp'[CallKey] = clk'
        /\ \A k \in Resident' : freq'[k] = 1 + HitsSinceInsertion(k)'

C22_FrequencyAndClock == [][C22_Step]_vars

\* a key that was hit, evicted and inserted again is back at frequency 1
\* beside a key of frequency 2 or more
C22_Witness ==
    /\ policy = "LFU"
    /\ \E k \in Resident :
          /\ freq[k] = 1
          /\ Cardinality({i \in 1..(ins_at[k] - 1) : history[i] = k}) >= 2
    /\ \E k \in Resident : freq[k] >= 2

\* C23: in FIFOCache a get_text on a resident key leaves the queue exactly
\* as it was.  Checked under Spec.
C23_Step == (policy = "FIFO" /\ IsHitStep) => queue' = queue

C23_HitKeepsQueue == [][C23_Step]_vars

\* a hit on a key that is not the newest of a queue of two or more
C23_Witness ==
    /\ policy = "FIFO"
    /\ LastWasHit
    /\ Len(queue) >= 2
    /\ queue[Len(queue)] # history[Len(history)]
    /\ SeqKeys(queue) = Resident

\* the structure the class takes its victim from is empty
OrderIsEmpty ==
    IF policy = "FIFO" THEN queue = <<>>
    ELSE IF policy = "MRU" THEN usage_order = <<>>
    ELSE DOMAIN freq = {}

\* C24: for every policy, after any get_text calls and resets (reset_stats
\* with either keep_cache value on LFU, the harness's reset on FIFO and
\* MRU), a miss that finds the cache full finds the structure it takes the
\* victim from non-empty, takes a victim and raises nothing.  Checked under
\* SpecResets.
C24_Step ==
    (IsMissStep /\ IsFull(cache_data, capacity)) =>
        /\ ~OrderIsEmpty
        /\ raised' = "none"
        /\ last_victim' # NoKey

C24_VictimSelectionNeverFails == [][C24_Step]_vars

\* after a reset that left usage_order, an MRUCache took a victim that was
\* not resident and so holds more keys than its capacity
C24_Witness ==
    /\ policy = "MRU"
    /\ last_victim # NoKey
    /\ Cardinality(Resident) > capacity

\* C25: every key the harness passes to get_text is the id of a document,
\* one of those the CLI accepts and the reader finds on the disk.  Checked
\* under SpecHarness.
C25_HarnessKeysAreValid ==
    \A i \in 1..Len(history) :
        /\ history[i] \in Keys
        /\ ~IsErrorMarker(history[i])

\* C26: a generator called with n yields exactly n keys, each in 0..99; in
\* the weighted generator a key of the hot branch is in 30..40 and a key of
\* the other branch is in 0..99 outside 30..40, and the two ranges are
\* disjoint with 11 and 89 keys.  Checked under SpecGen.
C26_GeneratorsYieldValidKeys ==
    /\ gen_out <= gen_n
    /\ gen_done => gen_out = gen_n
    /\ gen_out > 0 => (gen_key >= 0 /\ gen_key <= 99)
    /\ gen_branch = "favored" => (gen_key >= 30 /\ gen_key <= 40)
    /\ gen_branch = "others" => (gen_key < 30 \/ gen_key > 40)
    /\ (gen_kind = "weighted" /\ gen_out > 0) => gen_branch # "none"
    /\ favored \cap others = {}
    /\ Cardinality(favored) = 11
    /\ Cardinality(others) = 89

\* the weighted generator, called with the largest n, has yielded its last
\* key from the other branch and is exhausted
C26_Witness ==
    /\ gen_kind = "weighted"
    /\ gen_n = MaxGenCount
    /\ gen_done
    /\ gen_branch = "others"
    /\ gen_key = 99

\* C27: once the harness has written the entry of a pattern into the
\* summary, no later step of the run (the resets and get_text calls of the
\* later patterns, their own entries, the return) changes it.  Checked
\* under SpecHarness.
C27_Step ==
    \A name \in DOMAIN summary :
        /\ name \in DOMAIN summary'
        /\ summary'[name] = summary[name]

C27_EntriesAreFinal == [][C27_Step]_vars

\* the summary has been returned with a first entry that differs from the
\* counters the cache ended with
C27_Witness ==
    /\ h_pc = "done"
    /\ summary[C15_Order[1]].hits # hits
    /\ summary[C15_Order[1]].misses # misses
    /\ summary[C15_Order[1]].hits > 0


\* the attributes of main's best_cache_instance, <<>> while it is None
ActiveCache ==
    IF main_pc \in {"simulating", "select", "TypeError"} THEN best_cache_instance
    ELSE IF best_cache_name = "None" THEN <<>>
    ELSE cacheVars

\* C28: at the prompt get_text is called only for a line that is an integer
\* among the ids of the documents; every step that is not the handling of
\* such a line leaves the active cache as it was, and no line ends the loop
\* with an exception.
C28_Step ==
    /\ (main_pc = "read" /\ main_pc' # "read") =>
           (user_input = "int" /\ choice \in Keys)
    /\ (main_pc \notin {"read"} /\ ~(main_pc = "menu" /\ main_pc' = "read")) =>
           ActiveCache' = ActiveCache
    /\ main_pc' \notin {"ValueError", "TypeError"}

C28_OnlyValidIdsReachTheCache == [][C28_Step]_vars

\* C29: once the comparison started by -1 is over, main is back at its
\* prompt with an instance of the class of the best policy that holds no
\* content, no order and no count.
C29_FreshInstanceOfBest ==
    (user_input = "int" /\ choice = -1 /\ main_pc # "simulating") =>
        /\ main_pc = "menu"
        /\ best_cache_name \in {candidates[i] : i \in 1..Len(candidates)}
        /\ policy = best_cache_name
        /\ cache_data = EmptyMap
        /\ queue = <<>> /\ usage_order = <<>> /\ freq_order = <<>>
        /\ freq = EmptyMap /\ time_stamp = EmptyMap
        /\ hits = 0 /\ misses = 0

\* C30: without a comparison, the first document read at the prompt makes a
\* FIFOCache and every later read uses that same instance as it stands: the
\* first get_text is a miss that reads the disk, and a get_text of the id
\* that was read just before is a hit that returns the stored content
\* without a disk read.
C30_Step ==
    /\ (main_pc = "menu" /\ main_pc' = "read") =>
           IF best_cache_name = "None"
           THEN /\ best_cache_name' = "FIFO" /\ policy' = "FIFO"
                /\ capacity' = CACHE_CAPACITY
                /\ cache_data' = EmptyMap /\ queue' = <<>>
                /\ hits' = 0 /\ misses' = 0
           ELSE /\ best_cache_name' = "FIFO"
                /\ cacheVars' = cacheVars
    /\ (main_pc \in {"menu", "display"} /\ main_pc' \in {"menu", "exit", "ValueError"}) =>
           cacheVars' = cacheVars
    /\ (main_pc = "read" /\ main_pc' # "read") =>
           /\ policy = "FIFO" /\ IsCall /\ CallKey = choice
           /\ history = <<>> =>
                  /\ hits' = 0 /\ misses' = 1 /\ disk_reads' = 1
                  /\ DOMAIN cache_data' = {choice}
           /\ (history # <<>> /\ history[Len(history)] = choice) =>
                  /\ hits' = hits + 1 /\ misses' = misses
                  /\ disk_reads' = disk_reads
                  /\ last_ret' = cache_data[choice]
                  /\ cache_data' = cache_data /\ queue' = queue

C30_ActiveCachePersists == [][C30_Step]_vars

C30_Witness ==
    /\ main_pc = "display"
    /\ best_cache_name = "FIFO" /\ policy = "FIFO"
    /\ Len(history) = 2 /\ history[1] = history[2]
    /\ hits = 1 /\ misses = 1 /\ disk_reads = 1


\* C31: in an LFUCache, whatever get_text and reset_stats calls were made,
\* the timestamp of every resident key is at most the logical clock and no
\* two resident keys have the same timestamp.
C31_StampsBoundedAndDistinct ==
    policy = "LFU" =>
        /\ \A k \in Resident : StampOf(time_stamp, k) <= clk
        /\ \A k, j \in Resident :
               k # j => StampOf(time_stamp, k) # StampOf(time_stamp, j)

\* C35: in an LFUCache, whatever get_text and reset_stats calls were made,
\* the logical clock equals hits + misses.
C35_ClockCountsCalls ==
    policy = "LFU" => clk = hits + misses

C35_Witness ==
    /\ policy = "LFU"
    /\ last_ops = <<"reset_stats(keep_cache=True)", "get_text">>
    /\ Len(history) = 3
    /\ clk = 1
    /\ hits + misses = 1


\* C32: at every point of a run of the harness, of either variant and with
\* a cache of any of the three classes, cache_data holds at most capacity
\* keys.
C32_HarnessKeepsCapacity ==
    (h_pc # "idle" /\ policy \in {"FIFO", "MRU", "LFU"}) =>
        Cardinality(DOMAIN cache_data) <= capacity


C34_Step ==
    (IsCall /\ raised' = "ReaderError") =>
        /\ DOMAIN cache_data' = DOMAIN cache_data
        /\ queue' = queue
        /\ usage_order' = usage_order
        /\ freq_order' = freq_order

C34_FailedReadChangesNothing == [][C34_Step]_vars

====
